---------------------------- MODULE Spec2Model ----------------------------
(***************************************************************************)
(* Verification model of img-to-gpx (frontend).                            *)
(*                                                                         *)
(*  SpecAffine      computeAffineTransform / applyAffineTransform          *)
(*                  (components/MapProjection, affine variant)             *)
(*  SpecApp1        first wizard App (upload -> select line -> map view)   *)
(*  SpecApp2        second wizard App (upload -> reference points -> map   *)
(*                  view -> select line) with its ReferencePoints component *)
(*  SpecProjection  the affine MapProjection component: effects, GPX       *)
(*                  export and road snapping                               *)
(*                                                                         *)
(* The specifications share one set of variables; each keeps the variables *)
(* of the other parts at their initial value.                              *)
(***************************************************************************)
EXTENDS Integers, Sequences, FiniteSets, TLC

VARIABLES
    \* --- computeAffineTransform / applyAffineTransform ---
    imgPts,        \* the three reference pixel points [[x1,y1],[x2,y2],[x3,y3]]
    mapPts,        \* the three reference targets      [[X1,Y1],[X2,Y2],[X3,Y3]]
    affineParams,  \* value returned by computeAffineTransform (<<>> before the call)
    applied,       \* applyAffineTransform of each reference pixel point (<<>> before)
    solvePc        \* "input" -> "solved" -> "applied"

affineVars == <<imgPts, mapPts, affineParams, applied, solvePc>>

VARIABLES
    \* --- App (wizard variants 1 and 2) ---
    formData,         \* [image |-> File | null]
    imagePreview,     \* object URL of the selected image, or null
    points,           \* traced path received from POST /api/points, or null
    error,            \* error message, or null
    currentStep,      \* wizard step
    referencePoints,  \* list of [imagePoint, mapPoint | null, name]
    phase,            \* ReferencePoints component state: "image" | "map"
    pendingMapClick,  \* ReferencePoints component state: [lat, lng] | null
    requests,         \* the POST /api/points requests issued so far, in click order
    uploads           \* number of File objects chosen so far

appVars == <<formData, imagePreview, points, error, currentStep, referencePoints,
             phase, pendingMapClick, requests, uploads>>

VARIABLES
    \* --- MapProjection (affine variant); its props image, referencePoints and
    \*     points are the parent's formData.image, referencePoints and points ---
    life,                \* "new" | "mounted" | "errored" (an effect threw) | "unmounted"
    showOverlay,         \* useState(false)
    mapLayers,           \* layers currently on the Leaflet map
    imageOverlayRef,     \* the refs: a layer, or null
    polylineRef,
    snappedPolylineRef,
    startMarkerRef,
    endMarkerRef,
    lineCleanup,         \* the last run of the line effect returned its cleanup
    pendingImgs,         \* Image objects whose onload has not fired yet (closures)
    snapReqs,            \* POST /api/snap-points requests issued so far
    gpx,                 \* content of the last downloaded track.gpx, or null
    nextId,              \* identity of the next Leaflet layer object
    renders              \* number of re-renders so far

projVars == <<life, showOverlay, mapLayers, imageOverlayRef, polylineRef,
              snappedPolylineRef, startMarkerRef, endMarkerRef, lineCleanup,
              pendingImgs, snapReqs, gpx, nextId, renders>>

VARIABLES
    \* --- App (single-form variants 3 and 4) ---
    loading           \* useState(false): a submitted request is in flight

formVars == <<loading>>

vars == <<affineVars, appVars, projVars, formVars>>

Null == <<>>

-----------------------------------------------------------------------------
(***************************************************************************)
(* Numbers.  A JavaScript number is modelled in exact arithmetic as a      *)
(* fraction <<n, d>> in lowest terms with d > 0.  The non-finite values a  *)
(* division can produce are kept: <<1,0>> is Infinity, <<-1,0>> is         *)
(* -Infinity and <<0,0>> is NaN, with the IEEE-754 rules for them.  The    *)
(* sign of zero is not modelled, so x/0 is +-Infinity by the sign of x;    *)
(* whether a value is finite does not depend on it.                        *)
(***************************************************************************)
Abs(n) == IF n < 0 THEN -n ELSE n

Sign(n) == IF n < 0 THEN -1 ELSE IF n > 0 THEN 1 ELSE 0

RECURSIVE GCD(_, _)
GCD(a, b) == IF b = 0 THEN a ELSE GCD(b, a % b)

Norm(n, d) ==
    IF d = 0 THEN <<Sign(n), 0>>
    ELSE LET g == GCD(Abs(n), Abs(d))
         IN  <<(Sign(d) * n) \div g, Abs(d) \div g>>

Num(n) == <<n, 1>>

NaN == <<0, 0>>

IsFinite(a) == a[2] # 0

IsNaN(a) == a = NaN

RNeg(a) == <<-a[1], a[2]>>

RAdd(a, b) ==
    IF IsFinite(a) /\ IsFinite(b) THEN Norm(a[1] * b[2] + b[1] * a[2], a[2] * b[2])
    ELSE IF IsNaN(a) \/ IsNaN(b) THEN NaN
    ELSE IF IsFinite(a) THEN b
    ELSE IF IsFinite(b) THEN a
    ELSE IF a = b THEN a ELSE NaN

RSub(a, b) == RAdd(a, RNeg(b))

RMul(a, b) == Norm(a[1] * b[1], a[2] * b[2])

RDiv(a, b) == RMul(a, Norm(b[2], b[1]))

RAbs(a) == <<Abs(a[1]), a[2]>>

\* a > b; false when either side is NaN
RGt(a, b) == ~IsNaN(a) /\ ~IsNaN(b) /\ a[1] * b[2] > b[1] * a[2]

-----------------------------------------------------------------------------
(***************************************************************************)
(* computeAffineTransform: the 6x6 system and solve (Gaussian elimination  *)
(* with partial pivoting, then back substitution).  Rows and columns are   *)
(* 1..6 here for the code's 0..5.                                          *)
(***************************************************************************)
N6 == 6

AffineA(ip) ==
    LET x(i) == Num(ip[i][1])
        y(i) == Num(ip[i][2])
        o == Num(1)
        z == Num(0)
    IN  << <<x(1), y(1), o, z, z, z>>,
           <<z, z, z, x(1), y(1), o>>,
           <<x(2), y(2), o, z, z, z>>,
           <<z, z, z, x(2), y(2), o>>,
           <<x(3), y(3), o, z, z, z>>,
           <<z, z, z, x(3), y(3), o>> >>

AffineB(mp) ==
    <<Num(mp[1][1]), Num(mp[1][2]), Num(mp[2][1]), Num(mp[2][2]),
      Num(mp[3][1]), Num(mp[3][2])>>

\* mutant of FindPivot: no pivoting, the diagonal entry is used as it is
FindPivot_NoPivoting(m, i, k, maxRow) == maxRow

\* "Find pivot": for k = i+1..5, maxRow := k when |m[k][i]| > |m[maxRow][i]|
RECURSIVE FindPivot(_, _, _, _)
FindPivot(m, i, k, maxRow) ==
    IF k > N6 THEN maxRow
    ELSE FindPivot(m, i, k + 1,
                   IF RGt(RAbs(m[k][i]), RAbs(m[maxRow][i])) THEN k ELSE maxRow)

\* the pivot row is found but rows i and maxRow stay where they are
SwapRows_None(s, i, j) == s

SwapRows(s, i, j) == [s EXCEPT ![i] = s[j], ![j] = s[i]]

\* "Eliminate": for k = i+1..5, c = m[k][i]/m[i][i]; row k -= c * row i (columns i..5)
EliminateM(m, i) ==
    [k \in 1..N6 |->
        IF k > i
        THEN LET c == RDiv(m[k][i], m[i][i])
             IN  [j \in 1..N6 |->
                    IF j >= i THEN RSub(m[k][j], RMul(c, m[i][j])) ELSE m[k][j]]
        ELSE m[k]]

EliminateB(m, b, i) ==
    [k \in 1..N6 |->
        IF k > i THEN RSub(b[k], RMul(RDiv(m[k][i], m[i][i]), b[i])) ELSE b[k]]

\* the for-loop over i = 0..5 of solve; yields the pair <<m, b>>
RECURSIVE Forward(_, _, _)
Forward(m, b, i) ==
    IF i > N6 THEN <<m, b>>
    ELSE LET maxRow == FindPivot(m, i, i + 1, i)
             ms == SwapRows(m, i, maxRow)
             bs == SwapRows(b, i, maxRow)
         IN  Forward(EliminateM(ms, i), EliminateB(ms, bs, i), i + 1)

RECURSIVE RowSum(_, _, _, _)
RowSum(row, x, j, sum) ==
    IF j > N6 THEN sum
    ELSE RowSum(row, x, j + 1, RSub(sum, RMul(row[j], x[j])))

\* "Back substitution": for i = 5..0, x[i] = (b[i] - sum_{j>i} m[i][j]*x[j]) / m[i][i]
RECURSIVE BackSubst(_, _, _, _)
BackSubst(m, b, i, x) ==
    IF i < 1 THEN x
    ELSE BackSubst(m, b, i - 1,
                   [x EXCEPT ![i] = RDiv(RowSum(m[i], x, i + 1, b[i]), m[i][i])])

solve(A, B) ==
    LET mb == Forward(A, B, 1)
    IN  BackSubst(mb[1], mb[2], N6, [i \in 1..N6 |-> Num(0)])

\* m[i][i] for i = 0..5 as solve uses it: row i is final once step i has
\* swapped the pivot into it (later steps touch rows below i only), so the
\* diagonal left by the for-loop holds the divisor of "Eliminate" at each
\* step and the divisor of "Back substitution" for each row
Pivots(A, B) ==
    LET mb == Forward(A, B, 1)
    IN  [i \in 1..N6 |-> mb[1][i][i]]

computeAffineTransform(ip, mp) == solve(AffineA(ip), AffineB(mp))

\* applyAffineTransform on numbers of the model
applyAffine(x, y, params) ==
    << RAdd(RAdd(RMul(params[1], x), RMul(params[2], y)), params[3]),
       RAdd(RAdd(RMul(params[4], x), RMul(params[5], y)), params[6]) >>

applyAffineTransform(x, y, params) == applyAffine(Num(x), Num(y), params)

\* twice the signed area of the triangle of the three pixel points
Cross(ip) ==
    (ip[2][1] - ip[1][1]) * (ip[3][2] - ip[1][2])
  - (ip[3][1] - ip[1][1]) * (ip[2][2] - ip[1][2])

Collinear(ip) == Cross(ip) = 0

-----------------------------------------------------------------------------
(***************************************************************************)
(* SpecAffine: solve a transform for three reference pairs, then apply it  *)
(* to the three reference pixel points.                                    *)
(***************************************************************************)
PixMax == 2

Pixels == (0..PixMax) \X (0..PixMax)

\* reference targets [lng, lat] in whole degrees
GeoTargets ==
    { << <<0, 0>>, <<3, 0>>, <<0, 3>> >>,
      << <<4, 51>>, <<5, 52>>, <<3, 50>> >>,
      << <<-2, -7>>, <<-2, -7>>, <<5, 1>> >>,
      << <<1, 2>>, <<-3, 5>>, <<7, -4>> >> }

AffineIdle ==
    /\ imgPts = Null /\ mapPts = Null /\ affineParams = Null
    /\ applied = Null /\ solvePc = "idle"

NullStr == "null"

\* state of the App component after construction (useState initial values)
AppStart ==
    /\ formData = [image |-> Null]
    /\ imagePreview = Null
    /\ points = Null
    /\ error = NullStr
    /\ currentStep = 1
    /\ referencePoints = <<>>
    /\ phase = "image"
    /\ pendingMapClick = Null
    /\ requests = <<>>
    /\ uploads = 0

AppIdle == AppStart

FormIdle == loading = FALSE

ProjIdle ==
    /\ life = "idle"
    /\ showOverlay = FALSE
    /\ mapLayers = {}
    /\ imageOverlayRef = Null /\ polylineRef = Null /\ snappedPolylineRef = Null
    /\ startMarkerRef = Null /\ endMarkerRef = Null
    /\ lineCleanup = FALSE
    /\ pendingImgs = <<>>
    /\ snapReqs = <<>>
    /\ gpx = Null
    /\ nextId = 1
    /\ renders = 0

AffineStart ==
    /\ imgPts \in Pixels \X Pixels \X Pixels
    /\ mapPts \in GeoTargets
    /\ affineParams = Null
    /\ applied = Null
    /\ solvePc = "input"

ComputeAffine ==
    /\ solvePc = "input"
    /\ affineParams' = computeAffineTransform(imgPts, mapPts)
    /\ solvePc' = "solved"
    /\ UNCHANGED <<imgPts, mapPts, applied>>
    /\ UNCHANGED <<appVars, projVars, formVars>>

ApplyAffine ==
    /\ solvePc = "solved"
    /\ applied' = [i \in 1..3 |->
                     applyAffineTransform(imgPts[i][1], imgPts[i][2], affineParams)]
    /\ solvePc' = "applied"
    /\ UNCHANGED <<imgPts, mapPts, affineParams>>
    /\ UNCHANGED <<appVars, projVars, formVars>>

AffineNext == ComputeAffine \/ ApplyAffine

AffineInit == AffineStart /\ AppIdle /\ ProjIdle /\ FormIdle

SpecAffine == AffineInit /\ [][AffineNext]_vars

-----------------------------------------------------------------------------
(***************************************************************************)
(* App: the wizard.  Variant 1 (upload -> select line -> map view) and     *)
(* variant 2 (upload -> reference points -> map view -> select line) share *)
(* handleImageClick and resetToUpload; only the step at which the          *)
(* components are rendered differs.                                        *)
(***************************************************************************)
MaxUploads == 2

MaxClicks == 2

\* click positions on the preview image, as natural-size pixel coordinates
Seeds == {<<0, 0>>, <<1, 2>>}

\* the File object of the n-th selection and its object URL
File(n) == [file |-> n]

ObjectURL(f) == [url |-> f.file]

\* the body of a 2xx response of POST /api/points for a request
Trace(image, seed) == [image |-> image, seed |-> seed]

Pending(rs) == {i \in DOMAIN rs : rs[i].status = "pending"}

\* handleImageClick up to the await: setError(null) and the fetch
handleImageClick(seed) ==
    /\ Len(requests) < MaxClicks
    /\ IF formData.image # Null
       THEN /\ error' = NullStr
            /\ requests' = Append(requests,
                  [image |-> formData.image, seed |-> seed, status |-> "pending"])
       ELSE UNCHANGED <<error, requests>>
    /\ UNCHANGED <<formData, imagePreview, points, currentStep, referencePoints,
                   phase, pendingMapClick, uploads>>

\* handleImageClick after the await: 2xx -> setPoints(pointsData)
TraceResponseOk ==
    \E i \in Pending(requests) :
        /\ points' = Trace(requests[i].image, requests[i].seed)
        /\ requests' = [requests EXCEPT ![i].status = "ok"]
        /\ UNCHANGED <<formData, imagePreview, error, currentStep, referencePoints,
                       phase, pendingMapClick, uploads>>
        /\ UNCHANGED <<affineVars, projVars, formVars>>

\* non-2xx -> setError(errorData.error || "Unknown error")
TraceResponseHttpError ==
    \E i \in Pending(requests), msg \in {"Seed out of bounds", "Unknown error"} :
        /\ error' = msg
        /\ requests' = [requests EXCEPT ![i].status = "http"]
        /\ UNCHANGED <<formData, imagePreview, points, currentStep, referencePoints,
                       phase, pendingMapClick, uploads>>
        /\ UNCHANGED <<affineVars, projVars, formVars>>

\* fetch or res.json() rejects -> setError("Network error")
TraceNetworkError ==
    \E i \in Pending(requests) :
        /\ error' = "Network error"
        /\ requests' = [requests EXCEPT ![i].status = "net"]
        /\ UNCHANGED <<formData, imagePreview, points, currentStep, referencePoints,
                       phase, pendingMapClick, uploads>>
        /\ UNCHANGED <<affineVars, projVars, formVars>>

\* as PhaseEffect, but the phase changes once two points exist
PhaseEffect_AtTwo(ph, rps) == IF ph = "image" /\ Len(rps) = 2 THEN "map" ELSE ph

\* the phase effect of ReferencePoints: image -> map once three points exist
PhaseEffect(ph, rps) == IF ph = "image" /\ Len(rps) = 3 THEN "map" ELSE ph

\* resetToUpload (identical in both variants; referencePoints is not touched)
resetToUpload ==
    /\ currentStep > 1
    /\ formData' = [image |-> Null]
    /\ imagePreview' = Null
    /\ points' = Null
    /\ error' = NullStr
    /\ currentStep' = 1
    /\ phase' = "image"
    /\ pendingMapClick' = Null
    /\ UNCHANGED <<referencePoints, requests, uploads>>
    /\ UNCHANGED <<affineVars, projVars, formVars>>

\* ---- variant 1 (upload -> select line -> map view) ----
handleImageSelect1 ==
    /\ currentStep = 1
    /\ uploads < MaxUploads
    /\ uploads' = uploads + 1
    /\ formData' = [formData EXCEPT !.image = File(uploads + 1)]
    /\ imagePreview' = ObjectURL(File(uploads + 1))
    /\ currentStep' = 2
    /\ UNCHANGED <<points, error, referencePoints, phase, pendingMapClick, requests>>
    /\ UNCHANGED <<affineVars, projVars, formVars>>

\* a click on the ImagePreview image (rendered at step 2)
ImageClick1 ==
    /\ currentStep = 2 /\ imagePreview # Null
    /\ \E seed \in Seeds : handleImageClick(seed)
    /\ UNCHANGED <<affineVars, projVars, formVars>>

\* as NextDisabled1, but the button is never disabled
NextDisabled1_Never(pts) == FALSE

\* the disabled attribute of "Next Step" at step 2: !points
NextDisabled1(pts) == pts = Null

\* "Next Step" at step 2
NextStep1 ==
    /\ currentStep = 2
    /\ ~NextDisabled1(points)
    /\ currentStep' = 3
    /\ UNCHANGED <<formData, imagePreview, points, error, referencePoints,
                   phase, pendingMapClick, requests, uploads>>
    /\ UNCHANGED <<affineVars, projVars, formVars>>

App1Next ==
    \/ handleImageSelect1
    \/ ImageClick1
    \/ TraceResponseOk
    \/ TraceResponseHttpError
    \/ TraceNetworkError
    \/ NextStep1
    \/ resetToUpload

App1Init == AppStart /\ AffineIdle /\ ProjIdle /\ FormIdle

SpecApp1 == App1Init /\ [][App1Next]_vars

\* ---- variant 2 (upload -> reference points -> map view -> select line) ----
\* positions of reference clicks on the image (natural-size pixels)
RefPixels == {<<0, 0>>, <<2, 1>>}

\* positions of clicks on the map, [lat, lng]
MapClicks == {<<51, 4>>, <<52, 5>>}

\* ReferencePoints is rendered at step 3 when a preview URL exists
RefMounted == currentStep = 3 /\ imagePreview # Null

\* as FirstUnpaired, but the last reference point without a map location
FirstUnpaired_Last(rps) ==
    IF \E i \in DOMAIN rps : rps[i].mapPoint = Null
    THEN CHOOSE i \in DOMAIN rps :
            /\ rps[i].mapPoint = Null
            /\ \A j \in DOMAIN rps : rps[j].mapPoint = Null => i >= j
    ELSE 0

\* index of the first reference point without a map location, 0 for findIndex's -1
FirstUnpaired(rps) ==
    IF \E i \in DOMAIN rps : rps[i].mapPoint = Null
    THEN CHOOSE i \in DOMAIN rps :
            /\ rps[i].mapPoint = Null
            /\ \A j \in DOMAIN rps : rps[j].mapPoint = Null => i <= j
    ELSE 0

\* App.handleMapClick: the updater passed to setReferencePoints
handleMapClick(rps, lat, lng) ==
    LET activeIndex == FirstUnpaired(rps)
    IN  IF activeIndex # 0
        THEN [rps EXCEPT ![activeIndex].mapPoint = <<lat, lng>>]
        ELSE rps

\* mutant of NextStepDisabled: only the number of points is checked
NextStepDisabled_CountOnly(rps) == Len(rps) # 3

\* the disabled attribute of "Next Step" at step 3
NextStepDisabled(rps) ==
    Len(rps) # 3 \/ \E i \in DOMAIN rps : rps[i].mapPoint = Null

\* ReferencePoints.allPointsMatched
allPointsMatched(rps) ==
    Len(rps) = 3 /\ \A i \in DOMAIN rps : rps[i].mapPoint # Null

handleImageSelect2 ==
    /\ currentStep = 1
    /\ uploads < MaxUploads
    /\ uploads' = uploads + 1
    /\ formData' = [formData EXCEPT !.image = File(uploads + 1)]
    /\ imagePreview' = ObjectURL(File(uploads + 1))
    /\ currentStep' = 3
    \* ReferencePoints mounts: phase starts at "image", then the phase effect runs
    /\ phase' = PhaseEffect("image", referencePoints)
    /\ pendingMapClick' = Null
    /\ UNCHANGED <<points, error, referencePoints, requests>>
    /\ UNCHANGED <<affineVars, projVars, formVars>>

\* App.handleReferenceImageClick, wired to the image while phase = "image"
handleReferenceImageClick2 ==
    /\ RefMounted /\ phase = "image"
    /\ \E px \in RefPixels :
        /\ referencePoints' =
              IF Len(referencePoints) < 3
              THEN Append(referencePoints,
                          [imagePoint |-> px, mapPoint |-> Null,
                           name |-> Len(referencePoints) + 1])
              ELSE referencePoints
        /\ phase' = PhaseEffect(phase, referencePoints')
    /\ UNCHANGED <<formData, imagePreview, points, error, currentStep,
                   pendingMapClick, requests, uploads>>
    /\ UNCHANGED <<affineVars, projVars, formVars>>

\* the map's click handler of ReferencePoints: only in phase "map"
RefMapClick2 ==
    /\ RefMounted /\ phase = "map"
    /\ \E ll \in MapClicks : pendingMapClick' = ll
    /\ UNCHANGED <<formData, imagePreview, points, error, currentStep,
                   referencePoints, phase, requests, uploads>>
    /\ UNCHANGED <<affineVars, projVars, formVars>>

\* click on the marker of a paired reference point
RefMarkerClick2 ==
    /\ RefMounted
    /\ \E i \in DOMAIN referencePoints :
        /\ referencePoints[i].mapPoint # Null
        /\ LET ll == referencePoints[i].mapPoint
           IN  /\ pendingMapClick' = ll
               /\ referencePoints' = handleMapClick(referencePoints, ll[1], ll[2])
    /\ UNCHANGED <<formData, imagePreview, points, error, currentStep,
                   phase, requests, uploads>>
    /\ UNCHANGED <<affineVars, projVars, formVars>>

\* ReferencePoints.handlePointSelect: a colour button, shown while a map click is pending
handlePointSelect2 ==
    /\ RefMounted /\ pendingMapClick # Null
    /\ \E colorIndex \in 1..3 :
        /\ referencePoints' =
              handleMapClick(referencePoints, pendingMapClick[1], pendingMapClick[2])
        /\ pendingMapClick' = Null
    /\ UNCHANGED <<formData, imagePreview, points, error, currentStep,
                   phase, requests, uploads>>
    /\ UNCHANGED <<affineVars, projVars, formVars>>

\* App's "Next Step" button at step 3
NextStep3to4 ==
    /\ currentStep = 3
    /\ ~NextStepDisabled(referencePoints)
    /\ currentStep' = 4
    /\ phase' = "image" /\ pendingMapClick' = Null
    /\ UNCHANGED <<formData, imagePreview, points, error, referencePoints,
                   requests, uploads>>
    /\ UNCHANGED <<affineVars, projVars, formVars>>

\* ReferencePoints' "Project Image on Map" button
ProjectImageOnMap ==
    /\ RefMounted
    /\ allPointsMatched(referencePoints)
    /\ currentStep' = 4
    /\ phase' = "image" /\ pendingMapClick' = Null
    /\ UNCHANGED <<formData, imagePreview, points, error, referencePoints,
                   requests, uploads>>
    /\ UNCHANGED <<affineVars, projVars, formVars>>

\* App's "Next Step" button at step 4
NextStep4to5 ==
    /\ currentStep = 4
    /\ currentStep' = 5
    /\ UNCHANGED <<formData, imagePreview, points, error, referencePoints,
                   phase, pendingMapClick, requests, uploads>>
    /\ UNCHANGED <<affineVars, projVars, formVars>>

\* a click on the ImagePreview image (rendered at step 5)
ImageClick2 ==
    /\ currentStep = 5 /\ imagePreview # Null
    /\ \E seed \in Seeds : handleImageClick(seed)
    /\ UNCHANGED <<affineVars, projVars, formVars>>

App2Next ==
    \/ handleImageSelect2
    \/ handleReferenceImageClick2
    \/ RefMapClick2
    \/ RefMarkerClick2
    \/ handlePointSelect2
    \/ NextStep3to4
    \/ ProjectImageOnMap
    \/ NextStep4to5
    \/ ImageClick2
    \/ TraceResponseOk
    \/ TraceResponseHttpError
    \/ TraceNetworkError
    \/ resetToUpload

App2Init == AppStart /\ AffineIdle /\ ProjIdle /\ FormIdle

SpecApp2 == App2Init /\ [][App2Next]_vars

-----------------------------------------------------------------------------
(***************************************************************************)
(* SpecRefPoints: the ReferencePoints component that owns no phase (it     *)
(* reports every change through onReferencePointsChange) together with the *)
(* Map component it renders.  referencePoints is the prop held by the      *)
(* parent; onReferencePointsChange stores the new list.                    *)
(***************************************************************************)
\* mutant of CanAddReference: one slot too many
CanAddReference_OffByOne(rps) == Len(rps) <= 3

\* as CanAddReference, but without the cap
CanAddReference_NoCap(rps) == TRUE

\* the guard of handleReferenceImageClick
CanAddReference(rps) == Len(rps) < 3

\* ReferencePoints.handleReferenceImageClick (the display colour of a slot is
\* a label derived from its index and is not part of the model)
handleReferenceImageClick ==
    /\ \E px \in RefPixels :
        referencePoints' =
            IF CanAddReference(referencePoints)
            THEN LET newPointIndex == Len(referencePoints)
                 IN  Append(referencePoints,
                        [imagePoint |-> px, mapPoint |-> Null,
                         name |-> newPointIndex + 1])
            ELSE referencePoints
    /\ UNCHANGED <<formData, imagePreview, points, error, currentStep,
                   phase, pendingMapClick, requests, uploads>>
    /\ UNCHANGED <<affineVars, projVars, formVars>>

\* a click on the map: Map calls onMapClick(lat, lng) = ReferencePoints.handleMapClick
MapClick ==
    /\ \E ll \in MapClicks :
        referencePoints' = handleMapClick(referencePoints, ll[1], ll[2])
    /\ UNCHANGED <<formData, imagePreview, points, error, currentStep,
                   phase, pendingMapClick, requests, uploads>>
    /\ UNCHANGED <<affineVars, projVars, formVars>>

\* a click on the marker of a paired point: onMapClick(lat, lng) of that marker
MarkerClick ==
    /\ \E i \in DOMAIN referencePoints :
        /\ referencePoints[i].mapPoint # Null
        /\ referencePoints' =
              handleMapClick(referencePoints, referencePoints[i].mapPoint[1],
                             referencePoints[i].mapPoint[2])
    /\ UNCHANGED <<formData, imagePreview, points, error, currentStep,
                   phase, pendingMapClick, requests, uploads>>
    /\ UNCHANGED <<affineVars, projVars, formVars>>

RefPointsNext == handleReferenceImageClick \/ MapClick \/ MarkerClick

RefPointsInit == AppStart /\ AffineIdle /\ ProjIdle /\ FormIdle

SpecRefPoints == RefPointsInit /\ [][RefPointsNext]_vars

-----------------------------------------------------------------------------
(***************************************************************************)
(* SpecApp3: the single-form App (variants 3 and 4 of App.tsx): a file     *)
(* input, the start coordinates and a submit button on one page.  The      *)
(* colour swatch (selectedColor) only displays the clicked pixel and is    *)
(* not modelled.                                                           *)
(***************************************************************************)
\* values typed into the startX / startY inputs
Coordinates == {0, 3}

\* as ErrorMessage, but the message is dropped
ErrorMessage_Swallowed(err) == NullStr

\* errorData.error || "Unknown error" (NullStr: the body has no error field)
ErrorMessage(err) == IF err = NullStr THEN "Unknown error" ELSE err

\* the submit button is enabled
CanSubmit == ~loading /\ formData.image # Null

App3Start ==
    /\ formData = [image |-> Null, startX |-> 0, startY |-> 0]
    /\ imagePreview = Null
    /\ points = Null
    /\ error = NullStr
    /\ loading = FALSE
    /\ currentStep = 1 /\ referencePoints = <<>> /\ phase = "image"
    /\ pendingMapClick = Null
    /\ requests = <<>>
    /\ uploads = 0

App3Frame == UNCHANGED <<currentStep, referencePoints, phase, pendingMapClick>>

\* handleImageChange with a chosen file
handleImageChange ==
    /\ uploads < MaxUploads
    /\ formData' = [formData EXCEPT !.image = File(uploads + 1)]
    /\ imagePreview' = ObjectURL(File(uploads + 1))
    /\ uploads' = uploads + 1
    /\ UNCHANGED <<points, error, requests, loading>>
    /\ App3Frame
    /\ UNCHANGED <<affineVars, projVars>>

\* handleImageChange when the file dialog is left without a file
handleImageCleared ==
    /\ formData.image # Null
    /\ formData' = [formData EXCEPT !.image = Null]
    /\ imagePreview' = Null
    /\ UNCHANGED <<points, error, requests, uploads, loading>>
    /\ App3Frame
    /\ UNCHANGED <<affineVars, projVars>>

\* handleImageClick of the form: the click sets the start coordinates
handleImageClick3 ==
    /\ imagePreview # Null
    /\ \E seed \in Seeds :
        formData' = [formData EXCEPT !.startX = seed[1], !.startY = seed[2]]
    /\ UNCHANGED <<imagePreview, points, error, requests, uploads, loading>>
    /\ App3Frame
    /\ UNCHANGED <<affineVars, projVars>>

handleCoordinateChange ==
    /\ \E v \in Coordinates :
        \/ formData' = [formData EXCEPT !.startX = v]
        \/ formData' = [formData EXCEPT !.startY = v]
    /\ UNCHANGED <<imagePreview, points, error, requests, uploads, loading>>
    /\ App3Frame
    /\ UNCHANGED <<affineVars, projVars>>

\* handleSubmit up to the await of fetch
handleSubmit ==
    /\ CanSubmit
    /\ Len(requests) < MaxClicks
    /\ points' = Null
    /\ IF formData.image = Null
       THEN /\ error' = "Please upload a PNG image."
            /\ UNCHANGED <<loading, requests>>
       ELSE /\ error' = NullStr
            /\ loading' = TRUE
            /\ requests' = Append(requests,
                                  [image |-> formData.image,
                                   seed |-> <<formData.startX, formData.startY>>,
                                   status |-> "pending"])
    /\ UNCHANGED <<formData, imagePreview, uploads>>
    /\ App3Frame
    /\ UNCHANGED <<affineVars, projVars>>

\* handleSubmit after the await: 2xx
SubmitResponseOk ==
    /\ \E i \in Pending(requests) :
        /\ points' = Trace(requests[i].image, requests[i].seed)
        /\ requests' = [requests EXCEPT ![i].status = "ok"]
    /\ loading' = FALSE
    /\ UNCHANGED <<formData, imagePreview, error, uploads>>
    /\ App3Frame
    /\ UNCHANGED <<affineVars, projVars>>

\* handleSubmit after the await: non-2xx
SubmitResponseHttpError ==
    /\ \E i \in Pending(requests), err \in {NullStr, "Seed out of bounds"} :
        /\ error' = ErrorMessage(err)
        /\ requests' = [requests EXCEPT ![i].status = "http"]
    /\ loading' = FALSE
    /\ UNCHANGED <<formData, imagePreview, points, uploads>>
    /\ App3Frame
    /\ UNCHANGED <<affineVars, projVars>>

\* handleSubmit: fetch (or res.json()) rejects
SubmitNetworkError ==
    /\ \E i \in Pending(requests) :
        requests' = [requests EXCEPT ![i].status = "net"]
    /\ error' = "Network error"
    /\ loading' = FALSE
    /\ UNCHANGED <<formData, imagePreview, points, uploads>>
    /\ App3Frame
    /\ UNCHANGED <<affineVars, projVars>>

App3Next ==
    \/ handleImageChange
    \/ handleImageCleared
    \/ handleImageClick3
    \/ handleCoordinateChange
    \/ handleSubmit
    \/ SubmitResponseOk
    \/ SubmitResponseHttpError
    \/ SubmitNetworkError

App3Init == App3Start /\ AffineIdle /\ ProjIdle

SpecApp3 == App3Init /\ [][App3Next]_vars

-----------------------------------------------------------------------------
(***************************************************************************)
(* SpecClick: the conversion of a click on the displayed image into pixel  *)
(* coordinates of the natural-size image, as the click handlers do it      *)
(* (App.handleImageClick, App.handleReferenceImageClick and the            *)
(* ReferencePoints component of part_004).  The image element carries its  *)
(* natural size; the displayed size comes with each click.                 *)
(***************************************************************************)
\* naturalWidth x naturalHeight of the selected image
NaturalSizes == {<<1, 1>>, <<2, 1>>}

\* rect.width x rect.height of the displayed image
RectSizes == {<<1, 1>>, <<2, 1>>, <<4, 2>>}

\* click offsets e.clientX - rect.left inside a displayed extent, in half pixels
Offsets(extent) == {Norm(k, 2) : k \in 0..(2 * extent - 1)}

\* Math.round of a finite number: the nearest integer, halves upwards
MathRound(r) == (2 * r[1] + r[2]) \div (2 * r[2])

\* actualX = Math.round(x * (naturalWidth / rect.width))
ActualCoord(x, natural, extent) == MathRound(RMul(x, RDiv(Num(natural), Num(extent))))

ImageElement(n, size) ==
    [file |-> n, naturalWidth |-> size[1], naturalHeight |-> size[2]]

ClickStart ==
    /\ \E size \in NaturalSizes : formData = [image |-> ImageElement(1, size)]
    /\ imagePreview = ObjectURL(File(1))
    /\ points = Null
    /\ error = NullStr
    /\ currentStep = 3
    /\ referencePoints = <<>>
    /\ phase = "image"
    /\ pendingMapClick = Null
    /\ requests = <<>>
    /\ uploads = 1

\* a click on the image of the line-selection step: handleImageClick
ClickSeed ==
    /\ \E rect \in RectSizes :
       \E x \in Offsets(rect[1]), y \in Offsets(rect[2]) :
          LET actualX == ActualCoord(x, formData.image.naturalWidth, rect[1])
              actualY == ActualCoord(y, formData.image.naturalHeight, rect[2])
          IN  handleImageClick(<<actualX, actualY>>)
    /\ UNCHANGED <<affineVars, projVars, formVars>>

\* a click on the image of the reference-point step: handleReferenceImageClick
ClickReference ==
    /\ \E rect \in RectSizes :
       \E x \in Offsets(rect[1]), y \in Offsets(rect[2]) :
          LET actualX == ActualCoord(x, formData.image.naturalWidth, rect[1])
              actualY == ActualCoord(y, formData.image.naturalHeight, rect[2])
          IN  referencePoints' =
                 IF CanAddReference(referencePoints)
                 THEN Append(referencePoints,
                             [imagePoint |-> <<actualX, actualY>>,
                              mapPoint |-> Null,
                              name |-> Len(referencePoints) + 1])
                 ELSE referencePoints
    /\ UNCHANGED <<formData, imagePreview, points, error, currentStep,
                   phase, pendingMapClick, requests, uploads>>
    /\ UNCHANGED <<affineVars, projVars, formVars>>

ClickNext ==
    \/ ClickSeed
    \/ ClickReference

ClickInit == ClickStart /\ AffineIdle /\ ProjIdle /\ FormIdle

SpecClick == ClickInit /\ [][ClickNext]_vars

-----------------------------------------------------------------------------
(***************************************************************************)
(* SpecProjection: the affine MapProjection component.  The parent that    *)
(* renders it is not part of the sources, so its props are inputs: the     *)
(* component is mounted with some referencePoints and points and is        *)
(* re-rendered with others.  A re-render runs, as React does, the cleanups *)
(* of the effects whose dependencies changed and then those effects, in    *)
(* declaration order; img.onload and the snap response arrive later as     *)
(* steps of their own.  Layers are records [id, kind, latlngs].            *)
(***************************************************************************)
MaxRenders == 1

MaxSnaps == 2

Ref(px, ll, n) == [imagePoint |-> px, mapPoint |-> ll, name |-> n]

\* reference point lists the parent may pass: three paired (two placements),
\* two of three paired, none paired
RefConfigs ==
    { << Ref(<<0, 0>>, <<51, 4>>, 1), Ref(<<2, 0>>, <<51, 6>>, 2),
         Ref(<<0, 2>>, <<49, 4>>, 3) >>,
      << Ref(<<0, 0>>, <<10, 20>>, 1), Ref(<<1, 2>>, <<9, 23>>, 2),
         Ref(<<2, 1>>, <<12, 21>>, 3) >>,
      << Ref(<<0, 0>>, <<51, 4>>, 1), Ref(<<2, 0>>, <<51, 6>>, 2),
         Ref(<<0, 2>>, Null, 3) >>,
      << Ref(<<0, 0>>, Null, 1), Ref(<<2, 0>>, Null, 2), Ref(<<0, 2>>, Null, 3) >> }

\* traced pixel paths the parent may pass
PathConfigs ==
    { <<>>, << <<1, 1>> >>, << <<2, 0>>, <<1, 1>>, <<0, 1>> >> }

\* bodies of a 2xx response of POST /api/snap-points that carry a points array
SnappedPaths ==
    { << <<Num(51), Num(4)>>, <<Num(50), Num(5)>> >>,
      << <<Num(51), Num(4)>>, <<Num(51), Num(5)>>, <<Num(50), Num(5)>> >> }

SNAP_RADIUS == 100

\* referencePoints.filter((p) => p.mapPoint)
ValidPoints(refs) == SelectSeq(refs, LAMBDA r : r.mapPoint # Null)

\* computeAffineTransform(imgPts.slice(0, 3), mapPts.slice(0, 3)) with
\* imgPts = imagePoint and mapPts = [lng, lat] of the valid points
ParamsOf(vp) ==
    computeAffineTransform(
        [i \in 1..3 |-> vp[i].imagePoint],
        [i \in 1..3 |-> <<vp[i].mapPoint[2], vp[i].mapPoint[1]>>])

\* the parameters of every reference configuration, solved once
SolvedParams ==
    [refs \in RefConfigs |->
        IF Len(ValidPoints(refs)) >= 3 THEN ParamsOf(ValidPoints(refs)) ELSE <<>>]

\* points.map(([x, y]) => { [lng, lat] = applyAffineTransform(x, y, params); return [lat, lng] })
ProjectPath(params, pts) ==
    [i \in 1..Len(pts) |->
        LET r == applyAffineTransform(pts[i][1], pts[i][2], params)
        IN  <<r[2], r[1]>>]

\* as AffineMapPoints, but the pairs stay [lng, lat]
AffineMapPoints_LngLat(refs, pts) ==
    IF Len(ValidPoints(refs)) >= 3
    THEN [i \in 1..Len(pts) |->
            applyAffineTransform(pts[i][1], pts[i][2], SolvedParams[refs])]
    ELSE <<>>

\* affineMapPoints as all three call sites build it
AffineMapPoints(refs, pts) ==
    IF Len(ValidPoints(refs)) >= 3 THEN ProjectPath(SolvedParams[refs], pts) ELSE <<>>

Layer(id, kind, latlngs) == [id |-> id, kind |-> kind, latlngs |-> latlngs]

\* the component's mutable state as one record, so that the cleanups and
\* effects of one render can be applied one after the other
Cur ==
    [life |-> life, layers |-> mapLayers, overlay |-> imageOverlayRef,
     poly |-> polylineRef, snapped |-> snappedPolylineRef,
     start |-> startMarkerRef, end |-> endMarkerRef, cleanup |-> lineCleanup,
     imgs |-> pendingImgs, nextId |-> nextId]

Commit(st) ==
    /\ life' = st.life
    /\ mapLayers' = st.layers
    /\ imageOverlayRef' = st.overlay
    /\ polylineRef' = st.poly
    /\ snappedPolylineRef' = st.snapped
    /\ startMarkerRef' = st.start
    /\ endMarkerRef' = st.end
    /\ lineCleanup' = st.cleanup
    /\ pendingImgs' = st.imgs
    /\ nextId' = st.nextId

\* layer.remove() for the layers held by the given refs
Without(layers, refs) == {l \in layers : ~\E r \in refs : r # Null /\ r = l}

\* the overlay effect ([image, referencePoints, showOverlay]) up to img.onload
OverlayEffect(st, refs, pts, show) ==
    IF st.life # "mounted" THEN st
    ELSE [st EXCEPT
            !.layers = Without(st.layers, {st.overlay, st.poly, st.snapped}),
            !.overlay = Null,
            !.poly = Null,
            !.snapped = Null,
            !.imgs = Append(st.imgs,
                            [refs |-> refs, points |-> pts, showOverlay |-> show])]

\* the cleanup returned by the line effect
LineCleanup(st) ==
    IF ~st.cleanup THEN st
    ELSE [st EXCEPT
            !.layers = Without(st.layers, {st.poly, st.start, st.end}),
            !.poly = Null, !.start = Null, !.end = Null,
            !.cleanup = FALSE]

\* the line effect ([points, image, referencePoints]).  With an empty
\* affineMapPoints the start marker is created at position undefined; Leaflet
\* is not part of the sources, so both outcomes of adding that marker are
\* kept: markerThrows = TRUE is the TypeError raised inside the effect.
LineEffect(st, refs, pts, markerThrows) ==
    IF st.life # "mounted" \/ Len(pts) = 0 THEN st
    ELSE
    LET s1 == [st EXCEPT
                 !.layers = Without(st.layers, {st.poly, st.start, st.end}),
                 !.poly = Null, !.start = Null, !.end = Null]
        validPoints == ValidPoints(refs)
        affineMapPoints == AffineMapPoints(refs, pts)
        n == Len(affineMapPoints)
        polyline == Layer(s1.nextId, "solid", affineMapPoints)
        startMarker == Layer(s1.nextId + 1, "start",
                             IF n > 0 THEN <<affineMapPoints[1]>> ELSE <<>>)
        endMarker == Layer(s1.nextId + 2, "end",
                           IF n > 0 THEN <<affineMapPoints[n]>> ELSE <<>>)
    IN  IF Len(validPoints) < 2 THEN s1
        ELSE IF n = 0 /\ markerThrows
        THEN [s1 EXCEPT !.layers = s1.layers \cup {polyline},
                        !.nextId = s1.nextId + 1,
                        !.life = "errored"]
        ELSE [s1 EXCEPT !.layers = s1.layers \cup {polyline, startMarker, endMarker},
                        !.poly = polyline,
                        !.start = startMarker,
                        !.end = endMarker,
                        !.nextId = s1.nextId + 3,
                        !.cleanup = TRUE]

ProjUnchangedApp ==
    UNCHANGED <<imagePreview, error, currentStep, phase, pendingMapClick,
                requests, uploads>>

\* before the first render: the parent chooses the props
ProjStart ==
    /\ formData = [image |-> File(1)]
    /\ referencePoints \in RefConfigs
    /\ points \in PathConfigs
    /\ imagePreview = Null /\ error = NullStr /\ currentStep = 4
    /\ phase = "image" /\ pendingMapClick = Null /\ requests = <<>> /\ uploads = 1
    /\ life = "new"
    /\ showOverlay = FALSE
    /\ mapLayers = {}
    /\ imageOverlayRef = Null /\ polylineRef = Null /\ snappedPolylineRef = Null
    /\ startMarkerRef = Null /\ endMarkerRef = Null
    /\ lineCleanup = FALSE
    /\ pendingImgs = <<>>
    /\ snapReqs = <<>>
    /\ gpx = Null
    /\ nextId = 1
    /\ renders = 0

\* first render: map init effect, overlay effect, line effect
Mount ==
    /\ life = "new"
    /\ \E markerThrows \in BOOLEAN :
        Commit(LineEffect(
                 OverlayEffect([Cur EXCEPT !.life = "mounted"],
                               referencePoints, points, showOverlay),
                 referencePoints, points, markerThrows))
    /\ UNCHANGED <<showOverlay, snapReqs, gpx, renders>>
    /\ UNCHANGED <<formData, referencePoints, points>>
    /\ ProjUnchangedApp
    /\ UNCHANGED <<affineVars, formVars>>

\* the parent re-renders with other referencePoints and/or points
PropsChange ==
    /\ life = "mounted"
    /\ renders < MaxRenders
    /\ \E refs \in RefConfigs, pts \in PathConfigs, markerThrows \in BOOLEAN :
        /\ <<refs, pts>> # <<referencePoints, points>>
        /\ referencePoints' = refs
        /\ points' = pts
        /\ LET c == LineCleanup(Cur)
               o == IF refs # referencePoints
                    THEN OverlayEffect(c, refs, pts, showOverlay)
                    ELSE c
           IN  Commit(LineEffect(o, refs, pts, markerThrows))
    /\ renders' = renders + 1
    /\ UNCHANGED <<showOverlay, snapReqs, gpx, formData>>
    /\ ProjUnchangedApp
    /\ UNCHANGED <<affineVars, formVars>>

\* "Show Image" / "Hide Image": setShowOverlay(!showOverlay); only the overlay
\* effect depends on it
ToggleOverlay ==
    /\ life = "mounted"
    /\ renders < MaxRenders
    /\ showOverlay' = ~showOverlay
    /\ Commit(OverlayEffect(Cur, referencePoints, points, ~showOverlay))
    /\ renders' = renders + 1
    /\ UNCHANGED <<snapReqs, gpx, formData, referencePoints, points>>
    /\ ProjUnchangedApp
    /\ UNCHANGED <<affineVars, formVars>>

RemoveAt(q, k) == [i \in 1..(Len(q) - 1) |-> IF i < k THEN q[i] ELSE q[i + 1]]

\* img.onload of one of the pending images, with the props of its render
ImgOnload ==
    /\ life = "mounted"
    /\ \E k \in DOMAIN pendingImgs :
        LET c == pendingImgs[k]
            affineMapPoints == AffineMapPoints(c.refs, c.points)
            overlay == Layer(nextId, "overlay", <<>>)
            withOverlay == c.showOverlay
            polyId == IF withOverlay THEN nextId + 1 ELSE nextId
            polyline == Layer(polyId, "dashed", affineMapPoints)
            drawsLine == Len(affineMapPoints) > 0
        IN  /\ pendingImgs' = RemoveAt(pendingImgs, k)
            /\ IF Len(ValidPoints(c.refs)) < 3
               \* fewer than 2: return; exactly 2: affineParams is [], the corners
               \* are NaN and the bounds are rejected
               THEN UNCHANGED <<mapLayers, imageOverlayRef, polylineRef, nextId>>
               ELSE /\ mapLayers' = mapLayers
                                      \cup (IF withOverlay THEN {overlay} ELSE {})
                                      \cup (IF drawsLine THEN {polyline} ELSE {})
                    /\ imageOverlayRef' = IF withOverlay THEN overlay ELSE imageOverlayRef
                    /\ polylineRef' = IF drawsLine THEN polyline ELSE polylineRef
                    /\ nextId' = nextId + (IF withOverlay THEN 1 ELSE 0)
                                        + (IF drawsLine THEN 1 ELSE 0)
    /\ UNCHANGED <<life, showOverlay, snappedPolylineRef, startMarkerRef, endMarkerRef,
                   lineCleanup, snapReqs, gpx, renders>>
    /\ UNCHANGED <<formData, referencePoints, points>>
    /\ ProjUnchangedApp
    /\ UNCHANGED <<affineVars, formVars>>

\* an error thrown by an effect unmounts the tree: the map init effect's
\* cleanup removes the map
ErrorUnmount ==
    /\ life = "errored"
    /\ life' = "unmounted"
    /\ mapLayers' = {}
    /\ UNCHANGED <<showOverlay, imageOverlayRef, polylineRef, snappedPolylineRef,
                   startMarkerRef, endMarkerRef, lineCleanup, pendingImgs, snapReqs,
                   gpx, nextId, renders>>
    /\ UNCHANGED <<formData, referencePoints, points>>
    /\ ProjUnchangedApp
    /\ UNCHANGED <<affineVars, formVars>>

\* values of new Date().toISOString()
Times == {"T1", "T2"}

\* as TrkPt, but with the attributes exchanged
TrkPt_LonLat(p, now) ==
    << <<"trkpt", p[2], p[1]>>, <<"time", now>>, <<"/trkpt">> >>

\* the text of one track point: <trkpt lat lon>, <time>, </trkpt>.  A document
\* is the sequence of its tags; a number is written as the number it reads
\* back as.
TrkPt(p, now) ==
    << <<"trkpt", p[1], p[2]>>, <<"time", now>>, <<"/trkpt">> >>

RECURSIVE TrackPointLines(_, _)
\* points.map(...).join("\n")
TrackPointLines(pts, now) ==
    IF pts = <<>> THEN <<>>
    ELSE TrkPt(Head(pts), now) \o TrackPointLines(Tail(pts), now)

\* createGPXContent, with now = new Date().toISOString()
createGPXContent(pts, now) ==
    << <<"?xml">>, <<"gpx">>, <<"metadata">>, <<"time", now>>, <<"/metadata">>,
       <<"trk">>, <<"name", "Converted Track">>, <<"trkseg">> >>
    \o TrackPointLines(pts, now)
    \o << <<"/trkseg">>, <<"/trk">>, <<"/gpx">> >>

\* "Export GPX" (disabled while points is empty)
handleExportGPX ==
    /\ life = "mounted"
    /\ Len(points) > 0
    /\ \E now \in Times :
        gpx' = IF Len(ValidPoints(referencePoints)) < 3
               THEN gpx
               ELSE createGPXContent(
                       ProjectPath(SolvedParams[referencePoints], points), now)
    /\ UNCHANGED <<life, showOverlay, mapLayers, imageOverlayRef, polylineRef,
                   snappedPolylineRef, startMarkerRef, endMarkerRef, lineCleanup,
                   pendingImgs, snapReqs, nextId, renders>>
    /\ UNCHANGED <<formData, referencePoints, points>>
    /\ ProjUnchangedApp
    /\ UNCHANGED <<affineVars, formVars>>

\* the guard of handleSnapToRoads
SnapGuard(ref) == ref # Null

\* as SnapBody, but each pair is sent as [lng, lat]
SnapBody_LngLat(path) ==
    LET pts == [k \in 1..Len(path) |-> [lat |-> path[k][1], lng |-> path[k][2]]]
    IN  [k \in 1..Len(pts) |-> <<pts[k].lng, pts[k].lat>>]

\* the points of the request body: getLatLngs() as {lat, lng} objects, then
\* each as [p.lat, p.lng]
SnapBody(path) ==
    LET pts == [k \in 1..Len(path) |-> [lat |-> path[k][1], lng |-> path[k][2]]]
    IN  [k \in 1..Len(pts) |-> <<pts[k].lat, pts[k].lng>>]

\* data.points.map(([lat, lng]) => ({lat, lng})), then the LatLngs of L.polyline
SnappedLatLngs(dataPoints) ==
    LET snappedPath == [k \in 1..Len(dataPoints) |->
                           [lat |-> dataPoints[k][1], lng |-> dataPoints[k][2]]]
    IN  [k \in 1..Len(snappedPath) |-> <<snappedPath[k].lat, snappedPath[k].lng>>]

\* "Snap to Roads" (disabled while points is empty), up to the await of fetch
handleSnapToRoads ==
    /\ life = "mounted"
    /\ Len(points) > 0
    /\ Len(snapReqs) < MaxSnaps
    /\ snapReqs' =
          IF SnapGuard(polylineRef)
          THEN Append(snapReqs, [points |-> SnapBody(polylineRef.latlngs),
                                 radius |-> SNAP_RADIUS,
                                 status |-> "pending",
                                 response |-> Null])
          ELSE snapReqs
    /\ UNCHANGED <<life, showOverlay, mapLayers, imageOverlayRef, polylineRef,
                   snappedPolylineRef, startMarkerRef, endMarkerRef, lineCleanup,
                   pendingImgs, gpx, nextId, renders>>
    /\ UNCHANGED <<formData, referencePoints, points>>
    /\ ProjUnchangedApp
    /\ UNCHANGED <<affineVars, formVars>>

PendingSnaps == {i \in DOMAIN snapReqs : snapReqs[i].status = "pending"}

\* fetch rejects, the status is not 2xx, or response.json() rejects: all three
\* reach the catch block, which logs the error
SnapFailed ==
    /\ life = "mounted"
    /\ \E i \in PendingSnaps :
        snapReqs' = [snapReqs EXCEPT ![i].status = "failed"]
    /\ UNCHANGED <<life, showOverlay, mapLayers, imageOverlayRef, polylineRef,
                   snappedPolylineRef, startMarkerRef, endMarkerRef, lineCleanup,
                   pendingImgs, gpx, nextId, renders>>
    /\ UNCHANGED <<formData, referencePoints, points>>
    /\ ProjUnchangedApp
    /\ UNCHANGED <<affineVars, formVars>>

\* mutant of SnapMalformedLayers: the new polyline is drawn before the body is read
SnapMalformedLayers_DrawsFirst(layers, snapped, id) ==
    Without(layers, {snapped}) \cup {Layer(id, "snapped", <<>>)}

\* the layers after a 2xx response whose body has no points array: the old
\* snapped polyline is removed, then data.points.map throws
SnapMalformedLayers(layers, snapped, id) == Without(layers, {snapped})

SnapMalformed ==
    /\ life = "mounted"
    /\ \E i \in PendingSnaps :
        snapReqs' = [snapReqs EXCEPT ![i].status = "malformed"]
    /\ mapLayers' = SnapMalformedLayers(mapLayers, snappedPolylineRef, nextId)
    /\ UNCHANGED <<life, showOverlay, imageOverlayRef, polylineRef,
                   snappedPolylineRef, startMarkerRef, endMarkerRef, lineCleanup,
                   pendingImgs, gpx, nextId, renders>>
    /\ UNCHANGED <<formData, referencePoints, points>>
    /\ ProjUnchangedApp
    /\ UNCHANGED <<affineVars, formVars>>

\* a 2xx response with a points array: the snapped polyline replaces the old one
SnapOk ==
    /\ life = "mounted"
    /\ \E i \in PendingSnaps, body \in SnappedPaths :
        LET polyline == Layer(nextId, "snapped", SnappedLatLngs(body))
        IN  /\ snapReqs' = [snapReqs EXCEPT ![i].status = "ok", ![i].response = body]
            /\ mapLayers' = Without(mapLayers, {snappedPolylineRef}) \cup {polyline}
            /\ snappedPolylineRef' = polyline
            /\ nextId' = nextId + 1
    /\ UNCHANGED <<life, showOverlay, imageOverlayRef, polylineRef,
                   startMarkerRef, endMarkerRef, lineCleanup,
                   pendingImgs, gpx, renders>>
    /\ UNCHANGED <<formData, referencePoints, points>>
    /\ ProjUnchangedApp
    /\ UNCHANGED <<affineVars, formVars>>

ProjNext ==
    \/ Mount
    \/ PropsChange
    \/ ToggleOverlay
    \/ ImgOnload
    \/ ErrorUnmount
    \/ handleExportGPX
    \/ handleSnapToRoads
    \/ SnapFailed
    \/ SnapMalformed
    \/ SnapOk

ProjInit == ProjStart /\ AffineIdle /\ FormIdle

SpecProjection == ProjInit /\ [][ProjNext]_vars

\* the component under props that stay as they were at the first render: the
\* parent never passes other referencePoints or points
FixedPropsNext ==
    \/ Mount
    \/ ToggleOverlay
    \/ ImgOnload
    \/ ErrorUnmount
    \/ handleExportGPX
    \/ handleSnapToRoads
    \/ SnapFailed
    \/ SnapMalformed
    \/ SnapOk

SpecFixedProps == ProjInit /\ [][FixedPropsNext]_vars

-----------------------------------------------------------------------------
(***************************************************************************)
(* SpecAxis: the axis-aligned projections.  part_003 builds the transform  *)
(* from 2 paired reference points inside img.onload; MapProjection.tsx     *)
(* builds it in its line effect from 3 paired points, averaging the scale  *)
(* factors of the three pairs.  Both are run on reference points and a     *)
(* path chosen by the parent.  affineParams holds the transform            *)
(* (topLeftLat, topLeftLng, scaleX, scaleY) and applied the local          *)
(* mapPoints, so that what the code computed is visible in the state.      *)
(***************************************************************************)
\* img.width, img.height: the image covers the pixel grid
ImgWidth == PixMax + 1

ImgHeight == PixMax + 1

\* map locations [lat, lng] of the reference points
GeoPoints == {<<51, 4>>, <<50, 6>>, <<52, 6>>, <<51, 3>>}

GeoTriples ==
    { << <<51, 4>>, <<50, 6>>, <<49, 5>> >>,
      << <<51, 4>>, <<49, 8>>, <<47, 6>> >>,
      << <<10, 20>>, <<12, 18>>, <<11, 23>> >> }

\* scaleFactorX, scaleFactorY of one pair of reference points
ScaleFactors(p1, p2) ==
    LET imageDx == Num(p2.imagePoint[1] - p1.imagePoint[1])
        imageDy == Num(p2.imagePoint[2] - p1.imagePoint[2])
        mapDx == Num(p2.mapPoint[2] - p1.mapPoint[2])
        mapDy == Num(p2.mapPoint[1] - p1.mapPoint[1])
    IN  [scaleX |-> RAbs(RDiv(mapDx, imageDx)),
         scaleY |-> RAbs(RDiv(mapDy, imageDy))]

\* the transform anchored at p1 with the given scale factors
Anchored(p1, sx, sy) ==
    [topLeftLat |-> RAdd(Num(p1.mapPoint[1]), RMul(Num(p1.imagePoint[2]), sy)),
     topLeftLng |-> RSub(Num(p1.mapPoint[2]), RMul(Num(p1.imagePoint[1]), sx)),
     scaleX |-> sx, scaleY |-> sy]

\* part_003: the transform of the two valid points
AxisTransform2(vp) ==
    LET sf == ScaleFactors(vp[1], vp[2])
    IN  Anchored(vp[1], sf.scaleX, sf.scaleY)

\* MapProjection.tsx: the scale factors of the pairs (1,2), (1,3), (2,3), averaged
AxisTransformAvg(vp) ==
    LET s12 == ScaleFactors(vp[1], vp[2])
        s13 == ScaleFactors(vp[1], vp[3])
        s23 == ScaleFactors(vp[2], vp[3])
        avgScaleX == RDiv(RAdd(RAdd(RAdd(Num(0), s12.scaleX), s13.scaleX), s23.scaleX),
                          Num(3))
        avgScaleY == RDiv(RAdd(RAdd(RAdd(Num(0), s12.scaleY), s13.scaleY), s23.scaleY),
                          Num(3))
    IN  Anchored(vp[1], avgScaleX, avgScaleY)

\* ([x, y]) => [topLeftLat - y * scaleY, topLeftLng + x * scaleX]
AxisApply(x, y, t) ==
    << RSub(t.topLeftLat, RMul(Num(y), t.scaleY)),
       RAdd(t.topLeftLng, RMul(Num(x), t.scaleX)) >>

AxisMapPoints(pts, t) == [i \in 1..Len(pts) |-> AxisApply(pts[i][1], pts[i][2], t)]

\* Leaflet's LatLng constructor throws "Invalid LatLng object" on NaN
ValidLatLng(ll) == ~IsNaN(ll[1]) /\ ~IsNaN(ll[2])

ValidLatLngs(lls) == \A i \in 1..Len(lls) : ValidLatLng(lls[i])

\* the reference pixel points as a path
ReferencePath(refs) == [i \in 1..Len(refs) |-> refs[i].imagePoint]

AxisStart ==
    /\ \/ \E px \in Pixels \X Pixels, g \in GeoPoints \X GeoPoints :
            referencePoints = << Ref(px[1], g[1], 1), Ref(px[2], g[2], 2) >>
       \/ \E px \in Pixels \X Pixels \X Pixels, g \in GeoTriples :
            referencePoints =
                << Ref(px[1], g[1], 1), Ref(px[2], g[2], 2), Ref(px[3], g[3], 3) >>
    /\ points \in {<<>>, ReferencePath(referencePoints)}
    /\ showOverlay \in BOOLEAN
    /\ formData = [image |-> File(1)]
    /\ imagePreview = Null /\ error = NullStr /\ currentStep = 4
    /\ phase = "image" /\ pendingMapClick = Null /\ requests = <<>> /\ uploads = 1
    /\ life = "mounted"
    /\ mapLayers = {}
    /\ imageOverlayRef = Null /\ polylineRef = Null /\ snappedPolylineRef = Null
    /\ startMarkerRef = Null /\ endMarkerRef = Null
    /\ lineCleanup = FALSE
    /\ pendingImgs = <<>>
    /\ snapReqs = <<>>
    /\ gpx = Null
    /\ nextId = 1
    /\ renders = 0
    /\ imgPts = Null /\ mapPts = Null
    /\ affineParams = Null /\ applied = Null
    /\ solvePc = "rendered"

AxisFrame ==
    /\ UNCHANGED <<formData, imagePreview, points, error, currentStep,
                   referencePoints, phase, pendingMapClick, requests, uploads>>
    /\ UNCHANGED <<showOverlay, snappedPolylineRef, lineCleanup, pendingImgs,
                   snapReqs, gpx, renders>>
    /\ UNCHANGED <<imgPts, mapPts, formVars>>

\* part_003: img.onload of the overlay effect
Onload2 ==
    /\ solvePc = "rendered"
    /\ solvePc' = "done2"
    /\ LET validPoints == ValidPoints(referencePoints)
       IN  IF Len(validPoints) # 2
           THEN UNCHANGED <<affineParams, applied, mapLayers, imageOverlayRef,
                            polylineRef, nextId>>
           ELSE
           LET t == AxisTransform2(validPoints)
               topLeft == <<t.topLeftLat, t.topLeftLng>>
               bottomRight ==
                   << RSub(t.topLeftLat, RMul(Num(ImgHeight), t.scaleY)),
                      RAdd(t.topLeftLng, RMul(Num(ImgWidth), t.scaleX)) >>
               boundsOk == ValidLatLng(topLeft) /\ ValidLatLng(bottomRight)
               overlayThrows == showOverlay /\ ~boundsOk
               mapPoints == AxisMapPoints(points, t)
               polylineThrows == Len(points) > 0 /\ ~ValidLatLngs(mapPoints)
               overlay == Layer(nextId, "overlay", <<topLeft, bottomRight>>)
               polyId == IF showOverlay THEN nextId + 1 ELSE nextId
               polyline == Layer(polyId, "solid", mapPoints)
               drawsOverlay == showOverlay /\ ~overlayThrows
               drawsLine == Len(points) > 0 /\ ~overlayThrows /\ ~polylineThrows
           IN  /\ affineParams' = t
               /\ applied' = IF Len(points) > 0 /\ ~overlayThrows
                             THEN mapPoints ELSE applied
               /\ mapLayers' = mapLayers
                                 \cup (IF drawsOverlay THEN {overlay} ELSE {})
                                 \cup (IF drawsLine THEN {polyline} ELSE {})
               /\ imageOverlayRef' = IF drawsOverlay THEN overlay ELSE imageOverlayRef
               /\ polylineRef' = IF drawsLine THEN polyline ELSE polylineRef
               /\ nextId' = nextId + (IF drawsOverlay THEN 1 ELSE 0)
                                   + (IF drawsLine THEN 1 ELSE 0)
    /\ UNCHANGED <<life, startMarkerRef, endMarkerRef>>
    /\ AxisFrame

\* MapProjection.tsx: the line effect
LineEffectAvg ==
    /\ solvePc = "rendered"
    /\ solvePc' = "doneAvg"
    /\ LET validPoints == ValidPoints(referencePoints)
       IN  IF Len(points) = 0 \/ Len(validPoints) # 3
           THEN UNCHANGED <<affineParams, applied, mapLayers, polylineRef,
                            startMarkerRef, endMarkerRef, nextId, life>>
           ELSE
           LET t == AxisTransformAvg(validPoints)
               mapPoints == AxisMapPoints(points, t)
               polyline == Layer(nextId, "solid", mapPoints)
               startMarker == Layer(nextId + 1, "start", <<mapPoints[1]>>)
               endMarker == Layer(nextId + 2, "end", <<mapPoints[Len(mapPoints)]>>)
           IN  /\ affineParams' = t
               /\ applied' = mapPoints
               /\ IF ValidLatLngs(mapPoints)
                  THEN /\ mapLayers' = mapLayers \cup {polyline, startMarker, endMarker}
                       /\ polylineRef' = polyline
                       /\ startMarkerRef' = startMarker
                       /\ endMarkerRef' = endMarker
                       /\ nextId' = nextId + 3
                       /\ UNCHANGED life
                  ELSE /\ life' = "errored"
                       /\ UNCHANGED <<mapLayers, polylineRef, startMarkerRef,
                                      endMarkerRef, nextId>>
    /\ UNCHANGED imageOverlayRef
    /\ AxisFrame

AxisNext ==
    \/ Onload2
    \/ LineEffectAvg

AxisInit == AxisStart /\ FormIdle

SpecAxis == AxisInit /\ [][AxisNext]_vars


-----------------------------------------------------------------------------
(***************************************************************************)
(* SpecGPX: createGPXContent (part_002 and MapProjection.tsx, word for     *)
(* word the same) applied to lists of [lat, lng] points chosen by the      *)
(* caller; points holds the argument and gpx the document.                 *)
(***************************************************************************)
MaxLen == 3

\* [lat, lng] points
LatLngs == {<<Num(51), Num(4)>>, <<Num(4), Num(51)>>, <<Num(-7), Num(-7)>>,
            <<Norm(1, 2), Num(0)>>}

RECURSIVE Lists(_)
\* the lists of exactly n points
Lists(n) ==
    IF n = 0 THEN {<<>>}
    ELSE {Append(l, p) : l \in Lists(n - 1), p \in LatLngs}

GPXStart ==
    /\ \E n \in 0..MaxLen : points \in Lists(n)
    /\ formData = [image |-> Null]
    /\ imagePreview = Null /\ error = NullStr /\ currentStep = 1
    /\ referencePoints = <<>> /\ phase = "image" /\ pendingMapClick = Null
    /\ requests = <<>> /\ uploads = 0
    /\ gpx = Null

WriteGPX ==
    /\ \E now \in Times : gpx' = createGPXContent(points, now)
    /\ UNCHANGED <<life, showOverlay, mapLayers, imageOverlayRef, polylineRef,
                   snappedPolylineRef, startMarkerRef, endMarkerRef, lineCleanup,
                   pendingImgs, snapReqs, nextId, renders>>
    /\ UNCHANGED <<appVars, affineVars, formVars>>

GPXNext == WriteGPX

GPXInit == GPXStart /\ AffineIdle /\ ProjIdle /\ FormIdle

SpecGPX == GPXInit /\ [][GPXNext]_vars

\* the reference target of pair i as numbers of the model
Target(i) == <<Num(mapPts[i][1]), Num(mapPts[i][2])>>

AllFinite(s) == \A i \in DOMAIN s : IsFinite(s[i])

\* C1: for three non-collinear reference pixel points and any targets, the
\* transform returned by computeAffineTransform, applied to each reference
\* pixel point, yields exactly that point's reference coordinates.
C1_TransformExact ==
    (solvePc = "applied" /\ ~Collinear(imgPts))
        => \A i \in 1..3 : applied[i] = Target(i)

\* a non-collinear triple whose first pivot needs a row swap, solved and applied
C1_Witness ==
    /\ solvePc = "applied"
    /\ ~Collinear(imgPts)
    /\ imgPts[1] = <<0, 0>>
    /\ mapPts = << <<4, 51>>, <<5, 52>>, <<3, 50>> >>
    /\ \A i \in 1..3 : applied[i] = Target(i)

\* C2 (as claimed): when the three reference pixel points are identical or
\* collinear, solving fails explicitly and no transform parameters are
\* returned or applied.
C2_CollinearityRejected ==
    Collinear(imgPts) => (affineParams = Null /\ applied = Null)

\* what the code does instead: parameters are returned, and they are not finite
C2_ReturnsNonFinite ==
    (solvePc # "input" /\ Collinear(imgPts))
        => (affineParams # Null /\ ~AllFinite(affineParams))

\* C5 (as claimed): a reset is not undone by a trace request still in flight;
\* the stored traced path, when there is one, was requested for the image
\* that is currently loaded.
C5_ResetNotUndone ==
    points # Null => (formData.image # Null /\ points.image = formData.image)

Paired(rps) == {i \in DOMAIN rps : rps[i].mapPoint # Null}

\* C4 (as claimed): selecting a new image after resetToUpload leaves no
\* reference points and no traced path of the previous image.
C4_FullResetOnNewImage ==
    [][(currentStep = 1 /\ currentStep' = 3)
          => (referencePoints' = <<>> /\ points' = Null)]_vars

\* C6 (as claimed): once every trace response has been delivered, the stored
\* traced path is the one of the most recently clicked seed (when that
\* request succeeded).
C6_LastClickWins ==
    LET n == Len(requests)
    IN  (/\ n > 0
         /\ Pending(requests) = {}
         /\ requests[n].image = formData.image
         /\ requests[n].status = "ok")
            => points = Trace(requests[n].image, requests[n].seed)

\* reference points whose pixel is set and whose map location is not
PendingSlots(rps) == {i \in DOMAIN rps : rps[i].mapPoint = Null}

\* C7 (as claimed): at most one reference point is pending at any time.
C7_AtMostOnePending == Cardinality(PendingSlots(referencePoints)) <= 1

\* C7 (amended): at most three reference points are pending at any time.
C7_AtMostThreePending == Cardinality(PendingSlots(referencePoints)) <= 3

\* three image clicks and no map click yet: all three slots are pending
C7_Witness ==
    /\ Len(referencePoints) = 3
    /\ PendingSlots(referencePoints) = 1..3

\* C8: the wizard moves from step 3 to step 4 only in a state where exactly
\* three reference points exist and each of them has a map location.
C8_GeoreferencedGuard ==
    [][(currentStep = 3 /\ currentStep' = 4)
          => (Len(referencePoints) = 3 /\ Paired(referencePoints) = 1..3)]_vars

\* step 4 reached with three paired reference points
C8_Witness ==
    /\ currentStep = 4
    /\ Len(referencePoints) = 3
    /\ Paired(referencePoints) = 1..3


\* the [lat, lon] pairs of the trkpt elements of a document, in order
TrackPoints(doc) ==
    LET pts == SelectSeq(doc, LAMBDA t : t[1] = "trkpt")
    IN  [i \in 1..Len(pts) |-> <<pts[i][2], pts[i][3]>>]

\* the solid polylines a step adds to the map
NewLines == {l \in mapLayers' \ mapLayers : l.kind = "solid"}

\* the geographic point of input point i under the current reference points
Projected(i) ==
    LET r == applyAffineTransform(points'[i][1], points'[i][2],
                                  ParamsOf(ValidPoints(referencePoints')))
    IN  <<r[2], r[1]>>

\* path is the projection of the pixel path, point by point
MirrorsInput(path) ==
    /\ Len(path) = Len(points')
    /\ Len(ValidPoints(referencePoints')) >= 3
          => \A i \in 1..Len(path) : path[i] = Projected(i)

\* C3: whenever the line effect draws the projected path or handleExportGPX
\* exports it, the geographic path has as many points as the pixel path and
\* point i is the transform of pixel point i, for 2 as for 3 paired
\* reference points.
C3_OrderPreserved ==
    [][/\ \A l \in NewLines : MirrorsInput(l.latlngs)
       /\ gpx' # gpx => MirrorsInput(TrackPoints(gpx'))]_vars

\* C9: no request to /api/snap-points is ever sent for a path of fewer than
\* 2 points.
C9_NoRequestBelowTwoPoints ==
    \A i \in DOMAIN snapReqs : Len(snapReqs[i].points) >= 2

SnappedLayers(layers) == {l \in layers : l.kind = "snapped"}

\* a step in which a pending snap request fails
SnapFails ==
    \E i \in DOMAIN snapReqs :
        /\ snapReqs[i].status = "pending"
        /\ snapReqs'[i].status \in {"failed", "malformed"}

\* C10: when a snap request fails (network error, non-2xx status or a body
\* without points), polylineRef and points are unchanged, no snapped polyline
\* is added to the map, and Snap to Roads and Export GPX can be invoked as
\* before.
C10_SnapFailureFallsBack ==
    [][SnapFails =>
          /\ polylineRef' = polylineRef
          /\ points' = points
          /\ referencePoints' = referencePoints
          /\ SnappedLayers(mapLayers') \subseteq SnappedLayers(mapLayers)
          /\ life' = "mounted"
          /\ SnapGuard(polylineRef') = SnapGuard(polylineRef)]_vars

\* a snap request has failed while the unsnapped polyline of a non-empty
\* path is drawn, after an earlier snap had succeeded
C10_Witness ==
    /\ \E i \in DOMAIN snapReqs : snapReqs[i].status = "malformed"
    /\ \E i \in DOMAIN snapReqs : snapReqs[i].status = "ok"
    /\ polylineRef # Null
    /\ Len(polylineRef.latlngs) >= 2
    /\ life = "mounted"


\* C11: when a snap attempt fails while the snapped polyline of an earlier
\* successful snap is displayed, that polyline is still on the map and still
\* referenced by snappedPolylineRef afterwards.
C11_FailedSnapKeepsEarlierOutput ==
    [][(SnapFails /\ snappedPolylineRef # Null /\ snappedPolylineRef \in mapLayers)
          => /\ snappedPolylineRef' = snappedPolylineRef
             /\ snappedPolylineRef' \in mapLayers']_vars

\* what the component holds: its state hook, its refs and the layers of its
\* map (console output is not held by the component)
ComponentState ==
    <<life, showOverlay, mapLayers, imageOverlayRef, polylineRef,
      snappedPolylineRef, startMarkerRef, endMarkerRef, gpx>>

\* C12: a failed snap attempt leaves an error outcome in the component, so
\* that the state after the failure differs from the state in which the snap
\* was never requested.
C12_SnapErrorIsExplicit ==
    [][SnapFails => ComponentState' # ComponentState]_vars

\* C13: when the snapped polyline of a successful snap is displayed, Export
\* GPX serializes the snapped path.
C13_ExportEmitsSnappedPath ==
    [][(gpx' # gpx /\ snappedPolylineRef # Null /\ snappedPolylineRef \in mapLayers)
          => TrackPoints(gpx') = snappedPolylineRef.latlngs]_vars


\* a step that issues a trace request
TraceIssued == Len(requests') = Len(requests) + 1

\* a step in which a pending trace request fails
TraceFails ==
    \E i \in DOMAIN requests :
        /\ i \in DOMAIN requests'
        /\ requests[i].status = "pending"
        /\ requests'[i].status \in {"http", "net"}

\* C14 (as claimed): no step of a trace attempt that fails changes the stored
\* path: neither issuing the request nor receiving the failure.
C14_FailedTraceKeepsPrevious ==
    [][(TraceIssued \/ TraceFails) => points' = points]_vars

\* C14 (amended): receiving a non-2xx response or a network failure leaves
\* points unchanged and records an error message; handleSubmit has cleared
\* points when it issued the request.
C14_FailureRecordsError ==
    [][/\ TraceFails => (points' = points /\ error' # NullStr /\ ~loading')
       /\ TraceIssued => points' = Null]_vars

\* a resubmission has failed after an earlier one succeeded
C14_Witness ==
    /\ \E i \in DOMAIN requests : requests[i].status = "ok"
    /\ \E i \in DOMAIN requests : requests[i].status = "http"
    /\ points = Null
    /\ error = "Unknown error"
    /\ ~loading


\* the reference location of reference point i as numbers of the model
RefLocation(i) ==
    <<Num(referencePoints[i].mapPoint[1]), Num(referencePoints[i].mapPoint[2])>>

\* no two reference pixel points share an x or a y coordinate
DistinctOnBothAxes ==
    \A i, j \in DOMAIN referencePoints :
        i # j => /\ referencePoints[i].imagePoint[1] # referencePoints[j].imagePoint[1]
                 /\ referencePoints[i].imagePoint[2] # referencePoints[j].imagePoint[2]

\* the projection has been computed for the path of the reference pixel points
ReferencePathProjected ==
    /\ solvePc \in {"done2", "doneAvg"}
    /\ Len(points) > 0
    /\ Len(applied) = Len(points)

\* C15: the axis-aligned transform (2 points in part_003, 3 points with
\* averaged scales in MapProjection.tsx) maps every reference pixel point it
\* was derived from to that point's reference latitude and longitude, for
\* every placement of the reference points.
C15_AxisTransformExact ==
    (ReferencePathProjected /\ DistinctOnBothAxes)
        => \A i \in DOMAIN referencePoints : applied[i] = RefLocation(i)

\* the two paired reference pixel points coincide or share an x or a y
Degenerate2 ==
    /\ Len(referencePoints) = 2
    /\ \/ referencePoints[1].imagePoint[1] = referencePoints[2].imagePoint[1]
       \/ referencePoints[1].imagePoint[2] = referencePoints[2].imagePoint[2]

\* C16: for a degenerate pair of reference points the 2-point projection
\* aborts: it draws no polyline and no overlay, and it produces neither a
\* transform nor coordinates from the division by the zero pixel distance.
C16_DegenerateAborts ==
    (solvePc = "done2" /\ Degenerate2)
        => (mapLayers = {} /\ affineParams = Null /\ applied = Null)


\* the pixel point p lies inside the natural extent of image img
InsideImage(p, img) ==
    /\ p[1] \in Int /\ p[2] \in Int
    /\ 0 <= p[1] /\ p[1] < img.naturalWidth
    /\ 0 <= p[2] /\ p[2] < img.naturalHeight

\* C17: every seed sent as start_x/start_y and every reference imagePoint
\* stored by a click handler is an integer pair inside the natural extent of
\* the image, for every click inside the displayed image and every ratio of
\* displayed to natural size.
C17_PixelPointsInsideImage ==
    /\ \A i \in DOMAIN requests : InsideImage(requests[i].seed, requests[i].image)
    /\ \A i \in DOMAIN referencePoints :
          InsideImage(referencePoints[i].imagePoint, formData.image)


\* a step that sends a snap request
SnapIssued == Len(snapReqs') = Len(snapReqs) + 1

\* the request sent by the step
SentSnap == snapReqs'[Len(snapReqs')]

\* request i succeeds in the step
SnapSucceeds(i) ==
    /\ i \in DOMAIN snapReqs
    /\ snapReqs[i].status = "pending"
    /\ snapReqs'[i].status = "ok"

\* C18: each snap attempt sends the vertices of the displayed unsnapped
\* polyline polylineRef, in order, each as [lat, lng], with radius 100; on
\* success the returned points are drawn in the returned order as [lat, lng].
C18_SnapRequestBody ==
    [][/\ SnapIssued =>
            /\ polylineRef \in mapLayers
            /\ polylineRef.kind \in {"solid", "dashed"}
            /\ Len(SentSnap.points) = Len(polylineRef.latlngs)
            /\ \A k \in 1..Len(SentSnap.points) :
                  SentSnap.points[k] = polylineRef.latlngs[k]
            /\ SentSnap.radius = 100
       /\ \A i \in DOMAIN snapReqs : SnapSucceeds(i) =>
            /\ snappedPolylineRef' \in mapLayers'
            /\ snappedPolylineRef' \notin mapLayers
            /\ Len(snappedPolylineRef'.latlngs) = Len(snapReqs'[i].response)
            /\ \A k \in 1..Len(snapReqs'[i].response) :
                  snappedPolylineRef'.latlngs[k] = snapReqs'[i].response[k]]_vars

\* a request for a polyline of three vertices has succeeded and its snapped
\* polyline is drawn
C18_Witness ==
    \E i \in DOMAIN snapReqs :
        /\ snapReqs[i].status = "ok"
        /\ Len(snapReqs[i].points) = 3
        /\ snappedPolylineRef \in mapLayers
        /\ snappedPolylineRef.latlngs = snapReqs[i].response


\* the positions of the elements named tag in a document
Positions(doc, tag) == {k \in DOMAIN doc : doc[k][1] = tag}

\* C19: for a list of n >= 1 points the document has exactly one trk with
\* exactly one trkseg inside it, holding exactly n trkpt elements in input
\* order, trkpt i with lat = points[i][0] and lon = points[i][1], and every
\* trkpt and the metadata carry the same timestamp.
C19_GPXStructure ==
    (gpx # Null /\ Len(points) >= 1) =>
        LET trk == Positions(gpx, "trk")
            trkEnd == Positions(gpx, "/trk")
            seg == Positions(gpx, "trkseg")
            segEnd == Positions(gpx, "/trkseg")
            pts == Positions(gpx, "trkpt")
            meta == Positions(gpx, "metadata")
        IN  /\ Cardinality(trk) = 1 /\ Cardinality(trkEnd) = 1
            /\ Cardinality(seg) = 1 /\ Cardinality(segEnd) = 1
            /\ Cardinality(meta) = 1
            /\ Cardinality(pts) = Len(points)
            /\ \A t \in trk, te \in trkEnd, s \in seg, se \in segEnd :
                  /\ t < s /\ s < se /\ se < te
                  /\ \A k \in pts : s < k /\ k < se
            /\ TrackPoints(gpx) = points
            /\ \A m \in meta, k \in pts :
                  /\ gpx[m + 1][1] = "time"
                  /\ gpx[k + 1] = gpx[m + 1]
                  /\ gpx[k + 2][1] = "/trkpt"

\* a document has been written for three points, the first with lat # lon
C19_Witness ==
    /\ gpx # Null
    /\ Len(points) = 3
    /\ points[1][1] # points[1][2]
    /\ points[1] # points[2]


\* C20: for three non-collinear reference pixel points, the pivot m[i][i]
\* chosen at every elimination step of solve is a nonzero number, and so is
\* every divisor m[i][i] of back substitution.
C20_PivotsNonzero ==
    (solvePc # "input" /\ ~Collinear(imgPts))
        => \A i \in 1..N6 :
              LET pivot == Pivots(AffineA(imgPts), AffineB(mapPts))[i]
              IN  IsFinite(pivot) /\ pivot[1] # 0

\* a solved non-collinear triple whose m[0][0] is zero before the row swap
C20_Witness ==
    /\ solvePc = "solved"
    /\ ~Collinear(imgPts)
    /\ imgPts[1][1] = 0
    /\ AffineA(imgPts)[1][1] = Num(0)
    /\ \A i \in 1..N6 : IsFinite(affineParams[i])

\* the layers the line effect draws: the solid polyline and the two markers
LineLayers(layers) == {l \in layers : l.kind \in {"solid", "start", "end"}}

\* C21: a step adds a projected polyline or a start/end marker to the map
\* only when at least 3 of the reference points of that render are paired.
C21_ProjectionNeedsThree ==
    [][LineLayers(mapLayers') \ LineLayers(mapLayers) # {}
          => Len(ValidPoints(referencePoints')) >= 3]_vars

\* the unsnapped projected polylines on the map
UnsnappedLines(layers) == {l \in layers : l.kind \in {"solid", "dashed"}}

ImagePoints(rps) == [i \in DOMAIN rps |-> rps[i].imagePoint]

PointSelected ==
    /\ currentStep = 3 /\ currentStep' = 3
    /\ pendingMapClick # Null /\ pendingMapClick' = Null

\* C24: selecting colour index k with a pending map location gives reference
\* point k that location and changes no other reference point.  The handler
\* does the same for every k, so the step has to be right for each of them.
C24_ColourTargetsChosenPoint ==
    [][PointSelected
          => \A k \in DOMAIN referencePoints :
                referencePoints' =
                    [referencePoints EXCEPT ![k].mapPoint = pendingMapClick]]_vars

\* the step-4 map view is rendered with a traced path of the current image
MapViewRendered ==
    /\ currentStep = 4
    /\ points # Null
    /\ points.image = formData.image

\* C25: in the second wizard variant, pressing Next Step at step 3 with three
\* paired reference points leads to a state in which the step-4 map view is
\* rendered with a traced path of the current image.
C25_MapViewReachable ==
    [][(currentStep = 3 /\ allPointsMatched(referencePoints) /\ currentStep' = 4)
          => MapViewRendered']_vars

\* the lowest index of a reference point whose mapPoint is null
LowestPending(rps) ==
    CHOOSE i \in PendingSlots(rps) : \A j \in PendingSlots(rps) : i <= j

C27_ImagePointsBeforeMap ==
    [][/\ pendingMapClick' # Null
             => phase' = "map" /\ Len(referencePoints') = 3
       /\ (phase = "map" /\ RefMounted /\ RefMounted')
             => /\ phase' = "map"
                /\ ImagePoints(referencePoints') = ImagePoints(referencePoints)]_vars

\* a map click in phase map before any reference point is paired
C27_Witness ==
    /\ RefMounted
    /\ phase = "map"
    /\ pendingMapClick # Null
    /\ Len(referencePoints) = 3
    /\ \A i \in 1..3 : referencePoints[i].mapPoint = Null

\* C28: in the first wizard variant every reachable state with currentStep = 3
\* has a traced path, and every reachable state with currentStep > 1 has an
\* image selected.
C28_MapStepHasPath ==
    /\ currentStep = 3 => points # Null
    /\ currentStep > 1 => formData.image # Null

\* the map step of the second image, after a trace request was answered by
\* an error
C28_Witness ==
    /\ currentStep = 3
    /\ uploads = 2
    /\ points # Null
    /\ \E i \in DOMAIN requests : requests[i].status \in {"http", "net"}

\* C29: while the component is mounted, at most one unsnapped projected
\* polyline is on the map, and it is the one polylineRef refers to.
C29_OneUnsnappedPolyline ==
    life = "mounted"
        => /\ Cardinality(UnsnappedLines(mapLayers)) <= 1
           /\ \A l \in UnsnappedLines(mapLayers) : polylineRef = l

\* the snapped polylines on the map
SnappedLines(layers) == {l \in layers : l.kind = "snapped"}

\* the snap requests whose answer drew the given snapped polyline
SourcesOf(l) ==
    {i \in DOMAIN snapReqs :
        /\ snapReqs[i].status = "ok"
        /\ SnappedLatLngs(snapReqs[i].response) = l.latlngs}

\* C30: every snapped polyline on the map was obtained from an unsnapped
\* polyline that is on the map now: some answered snap request that drew it
\* sent the vertices of a displayed unsnapped polyline.
C30_SnappedMatchesProjection ==
    life = "mounted"
        => \A l \in SnappedLines(mapLayers) :
              \E i \in SourcesOf(l), u \in UnsnappedLines(mapLayers) :
                  snapReqs[i].points = SnapBody(u.latlngs)

=========================================================================
